---- MODULE Spec2Model ----
(***************************************************************************)
(* Model of scripts/test-wata-server.py: the wata-server test runner.      *)
(* One process (the script) with its program counter `pc`; the operator,   *)
(* the health probe, the jest runner and the signal source are the         *)
(* environment, whose answers are drawn with \E.  Strings are sequences of *)
(* one-character strings so that strip(), lower(), int() and the           *)
(* substring test are computed as Python computes them.                    *)
(***************************************************************************)
EXTENDS Integers, Sequences, FiniteSets

VARIABLES
    pc,             \* position of the script
    tdd,            \* args.tdd
    test_filter,    \* args.test_filter / starting_filter
    all_tests,      \* tdd_mode: all_tests
    current_index,  \* tdd_mode: current_index
    current_test,   \* tdd_mode: current_test
    caller,         \* who called start_wata_server: "tdd", "main", "restart"
    poll_i,         \* start_wata_server: polls done by the for loop
    launched,       \* start_wata_server: launches done by this call
    startRet,       \* start_wata_server: "none", "pending", "true", "false"
    lastProbe,      \* result of the most recent check_wata_server()
    spawnCount,     \* number of `pnpm wata-server &` launches so far
    stopCount,      \* number of stop_wata_server() calls so far
    restarts,       \* number of restart_server() calls so far
    executed,       \* tests handed to run_single_test so far, in order
    report,         \* the last report printed to the operator
    rc,             \* exit status the script is about to exit with
    exitCode,       \* exit status of the process, NoExit while it runs
    exitPath,       \* how the process ended
    plain,          \* only skip / passing run / logs / unknown commands so far
    advances,       \* advancing commands (skip, passing run) while plain, else 0
    scenario,       \* commands of Scenario issued so far, ScenarioOff once left
    passedTests,    \* the tests run_single_test has reported as passed
    suiteRuns       \* runs of the whole suite (pnpm test:integration)

vars == <<pc, tdd, test_filter, all_tests, current_index, current_test, caller,
          poll_i, launched, startRet, lastProbe, spawnCount, stopCount, restarts,
          executed, report, rc, exitCode, exitPath, plain, advances, scenario, passedTests,
          suiteRuns>>

----------------------------------------------------------------------------
(* Bounds of the model *)

MaxTests == 3
MaxRuns == 2
MaxRestarts == 1

(* Program constant: for _ in range(30) *)
PollBudget == 30

NoExit == 0 - 1

----------------------------------------------------------------------------
(* Strings *)

Whitespace == {" ", "\t"}
Digits == <<"0", "1", "2", "3", "4", "5", "6", "7", "8", "9">>
DigitSet == {Digits[i] : i \in 1..10}
UpperCase == <<"A", "B", "J", "L", "Q", "R", "S", "T", "O">>
LowerCase == <<"a", "b", "j", "l", "q", "r", "s", "t", "o">>

LowerChar(c) ==
    IF \E i \in 1..Len(UpperCase) : UpperCase[i] = c
    THEN LowerCase[CHOOSE i \in 1..Len(UpperCase) : UpperCase[i] = c]
    ELSE c

\* str.lower()
StrLower(s) == [i \in 1..Len(s) |-> LowerChar(s[i])]

RECURSIVE LStrip(_)
LStrip(s) == IF s # <<>> /\ s[1] \in Whitespace THEN LStrip(Tail(s)) ELSE s

RECURSIVE RStrip(_)
RStrip(s) ==
    IF s # <<>> /\ s[Len(s)] \in Whitespace
    THEN RStrip(SubSeq(s, 1, Len(s) - 1))
    ELSE s

\* str.strip()
Strip(s) == RStrip(LStrip(s))

\* sub in s
Contains(sub, s) ==
    \E i \in 0..(Len(s) - Len(sub)) : SubSeq(s, i + 1, i + Len(sub)) = sub

DigitVal(c) == (CHOOSE i \in 1..10 : Digits[i] = c) - 1

\* digits of an int literal: digits with single underscores between them
ValidDigits(b) ==
    /\ b # <<>>
    /\ b[1] \in DigitSet
    /\ b[Len(b)] \in DigitSet
    /\ \A i \in 1..Len(b) : b[i] \in DigitSet \cup {"_"}
    /\ \A i \in 1..(Len(b) - 1) : ~(b[i] = "_" /\ b[i + 1] = "_")

RECURSIVE DigitsValue(_, _)
DigitsValue(b, acc) ==
    IF b = <<>> THEN acc
    ELSE IF b[1] = "_" THEN DigitsValue(Tail(b), acc)
    ELSE DigitsValue(Tail(b), 10 * acc + DigitVal(b[1]))

\* int(s): [ok |-> FALSE] stands for ValueError
ParseInt(s) ==
    LET t == Strip(s)
        signed == t # <<>> /\ t[1] \in {"+", "-"}
        body == IF signed THEN Tail(t) ELSE t
    IN  IF ValidDigits(body)
        THEN [ok |-> TRUE,
              val |-> IF signed /\ t[1] = "-"
                      THEN 0 - DigitsValue(body, 0)
                      ELSE DigitsValue(body, 0)]
        ELSE [ok |-> FALSE, val |-> 0]

\* decimal text of a small natural number
DecStr(n) == IF n < 10 THEN <<Digits[n + 1]>> ELSE <<Digits[(n \div 10) + 1], Digits[(n % 10) + 1]>>

----------------------------------------------------------------------------
(* Inputs of the environment *)

\* test identifiers jest --listTests may report
TestIds == {<<"a">>, <<"A", "b">>}

RECURSIVE SeqsUpTo(_, _)
SeqsUpTo(S, n) ==
    IF n = 0 THEN {<<>>}
    ELSE LET shorter == SeqsUpTo(S, n - 1)
         IN  shorter \cup {Append(q, x) : q \in {r \in shorter : Len(r) = n - 1}, x \in S}

\* the summary line jest may print among the listed tests
SummaryLine == <<"T", "e", "s", "t", " ", "S", "u", "i", "t", "e", "s", ":">>

\* lines of the stdout of jest --listTests
OutputLines == TestIds \cup {<<>>, <<" ">>, <<" ", "a">>, SummaryLine}

RunnerOutputs == SeqsUpTo(OutputLines, MaxTests)

\* line.startswith("Test Suites")
StartsWithTestSuites(line) ==
    /\ Len(line) >= 11
    /\ SubSeq(line, 1, 11) = SubSeq(SummaryLine, 1, 11)

\* get_all_tests(): the stripped lines that are not blank and not the summary
RECURSIVE GetAllTests(_)
GetAllTests(lines) ==
    IF lines = <<>> THEN <<>>
    ELSE LET line == Strip(Head(lines))
         IN  IF line # <<>> /\ ~StartsWithTestSuites(line)
             THEN <<line>> \o GetAllTests(Tail(lines))
             ELSE GetAllTests(Tail(lines))

Queues == {GetAllTests(out) : out \in RunnerOutputs}

\* args.test_filter
Filters == {<<>>, <<"B">>, <<"z">>}

\* lines typed at the command prompt
CmdInputs ==
    {<<>>, <<" ", "R">>, <<"s">>, <<"l">>, <<"Q">>, <<"j">>, <<"t">>, <<"o">>,
     <<"-", "-">>, <<"r", "r">>}

\* lines typed at the jump prompt
JumpInputs ==
    {DecStr(n) : n \in 0..(MaxTests + 1)}
    \cup {<<>>, <<"x">>, <<"-", "1">>, <<" ", "2">>, <<"1", "_", "0">>, <<"1", "x">>}

----------------------------------------------------------------------------
(* Frames *)

sessionVars == <<all_tests, current_index, current_test, plain, advances, scenario>>
startVars == <<caller, poll_i, launched, startRet, lastProbe, spawnCount>>
runVars == <<executed, passedTests, suiteRuns>>
exitVars == <<rc, exitCode, exitPath>>
argVars == <<tdd, test_filter>>

Init ==
    /\ pc = "main"
    /\ tdd \in BOOLEAN
    /\ test_filter \in Filters
    /\ all_tests = <<>>
    /\ current_index = 0
    /\ current_test = <<>>
    /\ caller = "none"
    /\ poll_i = 0
    /\ launched = 0
    /\ startRet = "none"
    /\ lastProbe = FALSE
    /\ spawnCount = 0
    /\ stopCount = 0
    /\ restarts = 0
    /\ executed = <<>>
    /\ report = "none"
    /\ rc = NoExit
    /\ exitCode = NoExit
    /\ exitPath = "running"
    /\ plain = TRUE
    /\ advances = 0
    /\ scenario = 0
    /\ passedTests = {}
    /\ suiteRuns = 0

\* sys.exit(code), or the script running off its end
ExitWith(code, path) ==
    /\ pc' = "exited"
    /\ exitCode' = code
    /\ exitPath' = path
    /\ rc' = rc

----------------------------------------------------------------------------
(* ServiceLifecycle: start_wata_server, stop_wata_server *)

\* stop_wata_server(): pkill, failure swallowed
StopWataServer == stopCount' = stopCount + 1

\* StartReturn with the caller going on whatever start_wata_server() returned
StartReturn_IgnoreFailure(ret) ==
    /\ startRet' = IF ret THEN "true" ELSE "false"
    /\ poll_i' = 0
    /\ launched' = 0
    /\ caller' = "none"
    /\ IF caller = "restart"
       THEN /\ pc' = "interactive"
            /\ report' = "restarted"
       ELSE /\ pc' = IF caller = "tdd" THEN "get_tests" ELSE "dispatch"
            /\ report' = IF ret THEN "ready" ELSE "start_failed"
    /\ UNCHANGED exitVars

\* return from start_wata_server() into its caller
StartReturn(ret) ==
    /\ startRet' = IF ret THEN "true" ELSE "false"
    /\ poll_i' = 0
    /\ launched' = 0
    /\ caller' = "none"
    /\ IF caller = "restart"
       THEN /\ pc' = "interactive"
            /\ report' = "restarted"
            /\ UNCHANGED exitVars
       ELSE IF ret
       THEN /\ pc' = IF caller = "tdd" THEN "get_tests" ELSE "dispatch"
            /\ report' = "ready"
            /\ UNCHANGED exitVars
       ELSE /\ report' = "start_failed"
            /\ ExitWith(1, "start_failed")

\* the caller's `if not check_wata_server(): if not start_wata_server(): ...`
CheckThenStart(who, next) ==
    \E up \in BOOLEAN :
        /\ lastProbe' = up
        /\ IF up
           THEN /\ pc' = next
                /\ UNCHANGED <<caller, startRet>>
           ELSE /\ pc' = "start_entry"
                /\ caller' = who
                /\ startRet' = "pending"
        /\ UNCHANGED <<poll_i, launched, spawnCount>>

\* StartEntry with the early return lost: launches although the probe succeeded
StartEntry_AlwaysLaunch ==
    /\ pc = "start_entry"
    /\ \E up \in BOOLEAN :
        /\ lastProbe' = up
        /\ spawnCount' = spawnCount + 1
        /\ IF up
           THEN StartReturn(TRUE)
           ELSE /\ launched' = launched + 1
                /\ poll_i' = 0
                /\ pc' = "start_poll"
                /\ UNCHANGED <<caller, startRet, report, exitVars>>
    /\ UNCHANGED <<argVars, sessionVars, stopCount, restarts, runVars>>

\* start_wata_server, up to the launch
StartEntry ==
    /\ pc = "start_entry"
    /\ \E up \in BOOLEAN :
        /\ lastProbe' = up
        /\ IF up
           THEN /\ StartReturn(TRUE)
                /\ UNCHANGED spawnCount
           ELSE /\ spawnCount' = spawnCount + 1
                /\ launched' = launched + 1
                /\ poll_i' = 0
                /\ pc' = "start_poll"
                /\ UNCHANGED <<caller, startRet, report, exitVars>>
    /\ UNCHANGED <<argVars, sessionVars, stopCount, restarts, runVars>>

\* one pass of `for _ in range(30)`
StartPoll ==
    /\ pc = "start_poll"
    /\ poll_i < PollBudget
    /\ \E up \in BOOLEAN :
        /\ lastProbe' = up
        /\ IF up
           THEN StartReturn(TRUE)
           ELSE /\ poll_i' = poll_i + 1
                /\ UNCHANGED <<pc, caller, launched, startRet, report, exitVars>>
    /\ UNCHANGED <<argVars, sessionVars, spawnCount, stopCount, restarts, runVars>>

\* StartGiveUp one poll early: range(29)
StartGiveUp_Early ==
    /\ pc = "start_poll"
    /\ poll_i >= PollBudget - 1
    /\ StartReturn(FALSE)
    /\ UNCHANGED <<argVars, sessionVars, lastProbe, spawnCount, stopCount, restarts,
                   runVars>>

\* the loop ran out: "failed!", return False
StartGiveUp ==
    /\ pc = "start_poll"
    /\ poll_i >= PollBudget
    /\ StartReturn(FALSE)
    /\ UNCHANGED <<argVars, sessionVars, lastProbe, spawnCount, stopCount, restarts,
                   runVars>>

----------------------------------------------------------------------------
(* signal_handler, installed for SIGINT and SIGTERM before main() *)

Signal ==
    /\ pc # "exited"
    /\ StopWataServer
    /\ report' = "stopping"
    /\ ExitWith(0, "signal")
    /\ UNCHANGED <<argVars, sessionVars, startVars, restarts, runVars>>

----------------------------------------------------------------------------
(* main *)

\* Conduit is running, stdin is a terminal, and the question "Stop Conduit and
\* start wata-server?" is answered with end of input: EOFError is not caught
MainConduitEof ==
    /\ pc = "main"
    /\ report' = "traceback"
    /\ ExitWith(1, "exception")
    /\ UNCHANGED <<argVars, sessionVars, startVars, stopCount, restarts, runVars>>

MainTdd ==
    /\ pc = "main"
    /\ tdd
    /\ CheckThenStart("tdd", "get_tests")
    /\ report' = "tdd_banner"
    /\ UNCHANGED <<argVars, sessionVars, stopCount, restarts, runVars, exitVars>>

MainStart ==
    /\ pc = "main"
    /\ ~tdd
    /\ CheckThenStart("main", "dispatch")
    /\ UNCHANGED <<argVars, sessionVars, stopCount, restarts, runVars, report, exitVars>>

----------------------------------------------------------------------------
(* tdd_mode *)

\* the command sequence r (fails), r (passes), s
Scenario == <<"fail", "pass", "skip">>

ScenarioOff == 0 - 1

\* the session issues the command `tag`: the next of Scenario, or it leaves it
Follow(tag) ==
    scenario' = IF scenario >= 0 /\ scenario < Len(Scenario) /\ Scenario[scenario + 1] = tag
                THEN scenario + 1
                ELSE ScenarioOff

\* FindFrom without the .lower() calls
RECURSIVE FindFrom_CaseSensitive(_, _, _)
FindFrom_CaseSensitive(tests, filter, i) ==
    IF i > Len(tests) THEN 0
    ELSE IF Contains(filter, tests[i]) THEN i - 1
    ELSE FindFrom_CaseSensitive(tests, filter, i + 1)

\* for i, test in enumerate(all_tests): if filter.lower() in test.lower(): ... break
RECURSIVE FindFrom(_, _, _)
FindFrom(tests, filter, i) ==
    IF i > Len(tests) THEN 0
    ELSE IF Contains(StrLower(filter), StrLower(tests[i])) THEN i - 1
    ELSE FindFrom(tests, filter, i + 1)

\* "Find starting point"
StartIndex(tests, filter) ==
    IF filter # <<>> THEN FindFrom(tests, filter, 1) ELSE 0

\* input(...).strip().lower()
ReadCmd(inp) == StrLower(Strip(inp))

\* the commands the operator's lines are read as
TypedCmds == {ReadCmd(inp) : inp \in CmdInputs}

\* int(jump_input) for each line of the jump prompt
JumpIndex == [jin \in JumpInputs |-> ParseInt(jin)]

\* `while current_index < len(all_tests):` entered with current_index = idx
LoopHead(tests, idx) ==
    /\ current_index' = idx
    /\ IF idx < Len(tests)
       THEN /\ current_test' = tests[idx + 1]
            /\ pc' = "await"
       ELSE /\ current_test' = current_test
            /\ pc' = "all_passed"

\* JumpInRange with the upper bound off by one
JumpInRange_UpperOffByOne(k, tests) == 1 <= k /\ k <= Len(tests) + 1

\* JumpInRange taking the number as a 0-based index
JumpInRange_ZeroBased(k, tests) == 0 <= k /\ k < Len(tests)

\* the jump target test: 1 <= jump_index <= len(all_tests)
JumpInRange(k, tests) == 1 <= k /\ k <= Len(tests)

\* TddBegin without `if not all_tests`
TddBegin_NoEmptyCheck ==
    /\ pc = "get_tests"
    /\ \E q \in Queues :
        /\ all_tests' = q
        /\ report' = "prompt"
        /\ LoopHead(q, StartIndex(q, test_filter))
        /\ UNCHANGED exitVars
    /\ UNCHANGED <<argVars, plain, advances, scenario, startVars, stopCount, restarts, runVars>>

\* get_all_tests(), the empty check, the starting point, the first loop head
TddBegin ==
    /\ pc = "get_tests"
    /\ \E q \in Queues :
        /\ all_tests' = q
        /\ IF q = <<>>
           THEN /\ report' = "no_tests"
                /\ ExitWith(1, "no_tests")
                /\ UNCHANGED <<current_index, current_test>>
           ELSE /\ report' = "prompt"
                /\ LoopHead(q, StartIndex(q, test_filter))
                /\ UNCHANGED exitVars
    /\ UNCHANGED <<argVars, plain, advances, scenario, startVars, stopCount, restarts, runVars>>

\* TddRun advancing whatever the outcome
TddRun_AdvanceOnFail ==
    /\ pc = "await"
    /\ Len(executed) < MaxRuns
    /\ \E cmd \in TypedCmds, passed \in BOOLEAN :
        /\ cmd \in {<<"r">>, <<>>}
        /\ executed' = Append(executed, current_test)
        /\ passedTests' = IF passed THEN passedTests \cup {current_test} ELSE passedTests
        /\ UNCHANGED suiteRuns
        /\ report' = IF passed THEN "passed" ELSE "failed"
        /\ LoopHead(all_tests, current_index + 1)
        /\ plain' = (plain /\ passed)
        /\ Follow(IF passed THEN "pass" ELSE "fail")
        /\ advances' = IF plain /\ passed THEN advances + 1 ELSE 0
    /\ UNCHANGED <<argVars, all_tests, startVars, stopCount, restarts, exitVars>>

\* r or Enter: run_single_test(current_test)
TddRun ==
    /\ pc = "await"
    /\ Len(executed) < MaxRuns
    /\ \E cmd \in TypedCmds, passed \in BOOLEAN :
        /\ cmd \in {<<"r">>, <<>>}
        /\ executed' = Append(executed, current_test)
        /\ passedTests' = IF passed THEN passedTests \cup {current_test} ELSE passedTests
        /\ UNCHANGED suiteRuns
        /\ Follow(IF passed THEN "pass" ELSE "fail")
        /\ IF passed
           THEN /\ report' = "passed"
                /\ LoopHead(all_tests, current_index + 1)
                /\ advances' = IF plain THEN advances + 1 ELSE advances
                /\ UNCHANGED plain
           ELSE /\ report' = "failed"
                /\ plain' = FALSE
                /\ advances' = 0
                /\ UNCHANGED <<pc, current_index, current_test>>
    /\ UNCHANGED <<argVars, all_tests, startVars, stopCount, restarts, exitVars>>

\* TddSkip handing the skipped test to run_single_test
TddSkip_Runs ==
    /\ pc = "await"
    /\ \E cmd \in TypedCmds :
        /\ cmd = <<"s">>
        /\ report' = "skipping"
        /\ Follow("skip")
        /\ executed' = Append(executed, current_test)
        /\ UNCHANGED <<passedTests, suiteRuns>>
        /\ LoopHead(all_tests, current_index + 1)
        /\ advances' = IF plain THEN advances + 1 ELSE advances
    /\ UNCHANGED <<argVars, all_tests, plain, startVars, stopCount, restarts, exitVars>>

\* TddSkip passing over two tests
TddSkip_ByTwo ==
    /\ pc = "await"
    /\ \E cmd \in TypedCmds :
        /\ cmd = <<"s">>
        /\ report' = "skipping"
        /\ Follow("skip")
        /\ LoopHead(all_tests, current_index + 2)
        /\ advances' = IF plain THEN advances + 1 ELSE advances
    /\ UNCHANGED <<argVars, all_tests, plain, startVars, stopCount, restarts, runVars, exitVars>>

\* s: skip
TddSkip ==
    /\ pc = "await"
    /\ \E cmd \in TypedCmds :
        /\ cmd = <<"s">>
        /\ report' = "skipping"
        /\ Follow("skip")
        /\ LoopHead(all_tests, current_index + 1)
        /\ advances' = IF plain THEN advances + 1 ELSE advances
    /\ UNCHANGED <<argVars, all_tests, plain, startVars, stopCount, restarts, runVars,
                   exitVars>>

\* TddLogs falling through into the advance
TddLogs_Advances ==
    /\ pc = "await"
    /\ \E cmd \in TypedCmds :
        /\ cmd = <<"l">>
        /\ report' = "logs"
    /\ Follow("logs")
    /\ LoopHead(all_tests, current_index + 1)
    /\ UNCHANGED <<argVars, all_tests, plain, advances, startVars, stopCount, restarts,
                   runVars, exitVars>>

\* l: show_logs()
TddLogs ==
    /\ pc = "await"
    /\ \E cmd \in TypedCmds :
        /\ cmd = <<"l">>
        /\ report' = "logs"
    /\ Follow("logs")
    /\ UNCHANGED <<pc, argVars, all_tests, current_index, current_test, plain, advances,
                   startVars, stopCount, restarts, runVars, exitVars>>

\* TddQuit without the stop_wata_server() call
TddQuit_NoStop ==
    /\ pc = "await"
    /\ \E eof \in BOOLEAN, cmd \in TypedCmds :
        (IF eof THEN <<"q">> ELSE cmd) = <<"q">>
    /\ report' = "stopped"
    /\ plain' = FALSE
    /\ advances' = 0
    /\ Follow("quit")
    /\ pc' = "quit_exit"
    /\ UNCHANGED <<argVars, all_tests, current_index, current_test, startVars, stopCount,
                   restarts, runVars, exitVars>>

\* q, or end of input at the command prompt: stop_wata_server()
TddQuit ==
    /\ pc = "await"
    /\ \E eof \in BOOLEAN, cmd \in TypedCmds :
        (IF eof THEN <<"q">> ELSE cmd) = <<"q">>
    /\ StopWataServer
    /\ report' = "stopped"
    /\ plain' = FALSE
    /\ advances' = 0
    /\ Follow("quit")
    /\ pc' = "quit_exit"
    /\ UNCHANGED <<argVars, all_tests, current_index, current_test, startVars,
                   restarts, runVars, exitVars>>

\* sys.exit(0) of the quit command
TddQuitExit ==
    /\ pc = "quit_exit"
    /\ ExitWith(0, "quit")
    /\ UNCHANGED <<argVars, sessionVars, startVars, stopCount, restarts, runVars, report>>

\* j answered with the line jin
TddJumpTo(jin) ==
    /\ pc = "await"
    /\ <<"j">> \in TypedCmds
    /\ LET jump_index == JumpIndex[jin]
       IN  IF jump_index.ok
           THEN IF JumpInRange(jump_index.val, all_tests)
                THEN /\ current_index' = jump_index.val - 1
                     /\ report' = "jumped"
                ELSE /\ report' = "invalid_number"
                     /\ UNCHANGED current_index
           ELSE /\ report' = "invalid_input"
                /\ UNCHANGED current_index
    /\ plain' = FALSE
    /\ advances' = 0
    /\ Follow("jump")
    /\ UNCHANGED <<pc, argVars, all_tests, current_test, startVars, stopCount,
                   restarts, runVars, exitVars>>

\* j: jump
TddJump == \E jin \in JumpInputs : TddJumpTo(jin)

\* j answered with end of input: EOFError is not caught, the script dies
TddJumpEof ==
    /\ pc = "await"
    /\ <<"j">> \in TypedCmds
    /\ report' = "traceback"
    /\ plain' = FALSE
    /\ advances' = 0
    /\ Follow("jump")
    /\ ExitWith(1, "exception")
    /\ UNCHANGED <<argVars, all_tests, current_index, current_test, startVars,
                   stopCount, restarts, runVars>>

\* TddUnknown running the awaited test after its message
TddUnknown_Runs ==
    /\ pc = "await"
    /\ Len(executed) < MaxRuns
    /\ \E cmd \in TypedCmds :
        /\ cmd \notin {<<"r">>, <<>>, <<"s">>, <<"l">>, <<"q">>, <<"j">>}
        /\ report' = "unknown"
    /\ executed' = Append(executed, current_test)
    /\ Follow("unknown")
    /\ UNCHANGED <<pc, argVars, all_tests, current_index, current_test, plain, advances,
                   startVars, stopCount, restarts, passedTests, suiteRuns, exitVars>>

\* anything else: "Unknown command"
TddUnknown ==
    /\ pc = "await"
    /\ \E cmd \in TypedCmds :
        /\ cmd \notin {<<"r">>, <<>>, <<"s">>, <<"l">>, <<"q">>, <<"j">>}
        /\ report' = "unknown"
    /\ Follow("unknown")
    /\ UNCHANGED <<pc, argVars, all_tests, current_index, current_test, plain, advances,
                   startVars, stopCount, restarts, runVars, exitVars>>

\* the loop ended: "All tests passed!", stop_wata_server()
TddAllPassed ==
    /\ pc = "all_passed"
    /\ report' = "all_passed"
    /\ StopWataServer
    /\ pc' = "tdd_return"
    /\ UNCHANGED <<argVars, sessionVars, startVars, restarts, runVars, exitVars>>

\* tdd_mode returns, main returns, the script ends with status 0
TddReturn ==
    /\ pc = "tdd_return"
    /\ ExitWith(0, "exhausted")
    /\ UNCHANGED <<argVars, sessionVars, startVars, stopCount, restarts, runVars, report>>

----------------------------------------------------------------------------
(* main: single test, batch and interactive modes *)

\* exit statuses of `pnpm test:integration`
RunnerCodes == {0, 1, 2}

\* SingleTest running a failed test a second time
SingleTest_RetryOnFail ==
    /\ pc = "dispatch"
    /\ test_filter # <<>>
    /\ \E passed \in BOOLEAN :
        /\ executed' = IF passed
                       THEN Append(executed, test_filter)
                       ELSE executed \o <<test_filter, test_filter>>
        /\ passedTests' = IF passed THEN passedTests \cup {test_filter} ELSE passedTests
        /\ UNCHANGED suiteRuns
        /\ report' = IF passed THEN "passed" ELSE "failed"
        /\ rc' = IF passed THEN 0 ELSE 1
    /\ StopWataServer
    /\ pc' = "single_exit"
    /\ UNCHANGED <<argVars, sessionVars, startVars, restarts, exitCode, exitPath>>

\* "Single test mode": run_single_test(args.test_filter), stop_wata_server()
SingleTest ==
    /\ pc = "dispatch"
    /\ test_filter # <<>>
    /\ \E passed \in BOOLEAN :
        /\ executed' = Append(executed, test_filter)
        /\ passedTests' = IF passed THEN passedTests \cup {test_filter} ELSE passedTests
        /\ UNCHANGED suiteRuns
        /\ report' = IF passed THEN "passed" ELSE "failed"
        /\ rc' = IF passed THEN 0 ELSE 1
    /\ StopWataServer
    /\ pc' = "single_exit"
    /\ UNCHANGED <<argVars, sessionVars, startVars, restarts, exitCode, exitPath>>

\* SingleExit reporting success whatever the test did
SingleExit_AlwaysZero ==
    /\ pc = "single_exit"
    /\ ExitWith(0, "single")
    /\ UNCHANGED <<argVars, sessionVars, startVars, stopCount, restarts, runVars, report>>

\* sys.exit(0 if passed else 1)
SingleExit ==
    /\ pc = "single_exit"
    /\ ExitWith(rc, "single")
    /\ UNCHANGED <<argVars, sessionVars, startVars, stopCount, restarts, runVars, report>>

\* "Non-interactive mode (CI)": stdin is no terminal
Batch ==
    /\ pc = "dispatch"
    /\ test_filter = <<>>
    /\ \E code \in RunnerCodes :
        /\ rc' = code
        /\ report' = "suite_run"
    /\ suiteRuns' = suiteRuns + 1
    /\ StopWataServer
    /\ pc' = "batch_exit"
    /\ UNCHANGED <<argVars, sessionVars, startVars, restarts, executed, passedTests, exitCode,
                   exitPath>>

\* sys.exit(result.returncode)
BatchExit ==
    /\ pc = "batch_exit"
    /\ ExitWith(rc, "batch")
    /\ UNCHANGED <<argVars, sessionVars, startVars, stopCount, restarts, runVars, report>>

\* stdin is a terminal: interactive_mode() prints its menu
EnterInteractive ==
    /\ pc = "dispatch"
    /\ test_filter = <<>>
    /\ pc' = "interactive"
    /\ report' = "menu"
    /\ UNCHANGED <<argVars, sessionVars, startVars, stopCount, restarts, runVars, exitVars>>

\* t, --, l and unknown commands: reports only
IntReport ==
    /\ pc = "interactive"
    /\ \E cmd \in TypedCmds, code \in RunnerCodes :
            /\ cmd \notin {<<"o">>, <<"r">>, <<"s">>, <<"q">>}
            /\ report' = IF cmd = <<"t">>
                         THEN (IF code = 0 THEN "suite_passed" ELSE "suite_failed")
                         ELSE IF cmd = <<"-", "-">> THEN "list"
                         ELSE IF cmd = <<"l">> THEN "logs"
                         ELSE "unknown"
            /\ IF cmd = <<"t">>
               THEN suiteRuns < MaxRuns /\ suiteRuns' = suiteRuns + 1
               ELSE UNCHANGED suiteRuns
    /\ UNCHANGED <<pc, argVars, sessionVars, startVars, stopCount, restarts, executed,
                   passedTests, exitVars>>

\* o: run_single_test(pattern), the result is dropped
IntRunOne ==
    /\ pc = "interactive"
    /\ Len(executed) < MaxRuns
    /\ \E cmd \in TypedCmds, pattern \in TestIds, passed \in BOOLEAN :
        /\ cmd = <<"o">>
        /\ executed' = Append(executed, pattern)
        /\ passedTests' = IF passed THEN passedTests \cup {pattern} ELSE passedTests
        /\ UNCHANGED suiteRuns
        /\ report' = IF passed THEN "passed" ELSE "failed"
    /\ UNCHANGED <<pc, argVars, sessionVars, startVars, stopCount, restarts, exitVars>>

\* o answered with end of input: EOFError is not caught, the script dies
IntRunOneEof ==
    /\ pc = "interactive"
    /\ <<"o">> \in TypedCmds
    /\ report' = "traceback"
    /\ ExitWith(1, "exception")
    /\ UNCHANGED <<argVars, sessionVars, startVars, stopCount, restarts, runVars>>

\* r: restart_server() = stop_wata_server(), sleep, start_wata_server()
IntRestart ==
    /\ pc = "interactive"
    /\ restarts < MaxRestarts
    /\ \E cmd \in TypedCmds : cmd = <<"r">>
    /\ StopWataServer
    /\ restarts' = restarts + 1
    /\ report' = "restarting"
    /\ pc' = "start_entry"
    /\ caller' = "restart"
    /\ startRet' = "pending"
    /\ UNCHANGED <<argVars, sessionVars, poll_i, launched, lastProbe, spawnCount, runVars,
                   exitVars>>

\* s (stop and leave the loop), q or end of input (stop and sys.exit(0))
IntStop ==
    /\ pc = "interactive"
    /\ \E eof \in BOOLEAN, cmd \in TypedCmds :
        (IF eof THEN <<"q">> ELSE cmd) \in {<<"s">>, <<"q">>}
    /\ StopWataServer
    /\ report' = "stopped"
    /\ pc' = "int_exit"
    /\ UNCHANGED <<argVars, sessionVars, startVars, restarts, runVars, exitVars>>

\* interactive_mode returns or exits: status 0
IntExit ==
    /\ pc = "int_exit"
    /\ ExitWith(0, "interactive")
    /\ UNCHANGED <<argVars, sessionVars, startVars, stopCount, restarts, runVars, report>>

----------------------------------------------------------------------------

Next ==
    \/ MainConduitEof
    \/ MainTdd
    \/ MainStart
    \/ StartEntry
    \/ StartPoll
    \/ StartGiveUp
    \/ Signal
    \/ TddBegin
    \/ TddRun
    \/ TddSkip
    \/ TddLogs
    \/ TddQuit
    \/ TddQuitExit
    \/ TddJump
    \/ TddJumpEof
    \/ TddUnknown
    \/ TddAllPassed
    \/ TddReturn
    \/ SingleTest
    \/ SingleExit
    \/ Batch
    \/ BatchExit
    \/ EnterInteractive
    \/ IntReport
    \/ IntRunOne
    \/ IntRunOneEof
    \/ IntRestart
    \/ IntStop
    \/ IntExit

Spec == Init /\ [][Next]_vars

----------------------------------------------------------------------------
(* Properties *)

Total == Len(all_tests)

\* the command loop of tdd_mode has been entered
InSession == tdd /\ all_tests # <<>>

\* the loop ended with current_index = len(all_tests)
Exhausted == pc \in {"all_passed", "tdd_return"} \/ exitPath = "exhausted"

\* a step of the script that is not the signal handler
ScriptStep == exitPath' # "signal"

\* a step that hands a test to run_single_test
RunStep == Len(executed') = Len(executed) + 1

LastExecuted == executed'[Len(executed')]

\* C1: after a jump to a valid index k the position is k-1 and the next run
\* command executes queue[k-1].
C1_JumpSetsNextTest ==
    [][(pc = "await" /\ report = "jumped" /\ RunStep)
        => LastExecuted = all_tests[current_index + 1]]_vars

\* C2: a run whose test fails leaves the position (and the awaited test)
\* unchanged, however often it is repeated; a run whose test passes adds
\* exactly 1 to the position.
C2_FailStaysPassAdvances ==
    [][(pc = "await" /\ RunStep)
        => \/ /\ report' = "failed"
              /\ current_index' = current_index
              /\ current_test' = current_test
              /\ pc' = "await"
           \/ /\ report' = "passed"
              /\ current_index' = current_index + 1]_vars

\* a test was run twice in a row, failing and then passing, and the session advanced
C2_FailedThenPassed ==
    /\ pc = "await"
    /\ Total = 2
    /\ all_tests[1] # all_tests[2]
    /\ executed = <<all_tests[1], all_tests[1]>>
    /\ report = "passed"
    /\ current_index = 1

\* C3 as stated: a session of skip, passing run, logs and unknown commands
\* ends by exhaustion after exactly N advancing commands.
C3_DoneAfterN ==
    (InSession /\ plain /\ Exhausted) => advances = Total

\* indices whose test contains the filter, case-insensitively
Matching(tests, filter) ==
    {i \in 0..(Len(tests) - 1) : Contains(StrLower(filter), StrLower(tests[i + 1]))}

\* the initial position the specification describes
FirstMatch(tests, filter) ==
    IF filter = <<>> \/ Matching(tests, filter) = {}
    THEN 0
    ELSE CHOOSE i \in Matching(tests, filter) : \A j \in Matching(tests, filter) : i <= j

\* C3 amended: such a session started at position s ends by exhaustion after
\* exactly N - s advancing commands, and not before; logs and unknown
\* commands consume none.
C3_DoneAfterRemaining ==
    (InSession /\ plain)
        => LET s == FirstMatch(all_tests, test_filter)
           IN  /\ current_index = s + advances
               /\ (pc = "await" => advances < Total - s)
               /\ (Exhausted => advances = Total - s)
               /\ (advances = Total - s => (Exhausted \/ exitPath = "signal"))

\* a filtered session exhausted after fewer than N advancing commands
C3_ExhaustedFromFilter ==
    /\ InSession
    /\ plain
    /\ pc = "all_passed"
    /\ Total = 2
    /\ advances = 1

\* C4: a quit command stops the service once, runs no test, and the script
\* then exits at once with status 0.
C4_QuitStopsOnceExitsZero ==
    /\ [][(pc = "await" /\ report' = "stopped")
            => (pc' = "quit_exit" /\ stopCount' = stopCount + 1 /\ executed' = executed)]_vars
    /\ [][pc = "quit_exit"
            => (pc' = "exited" /\ executed' = executed
                /\ (ScriptStep => (exitPath' = "quit" /\ stopCount' = stopCount)))]_vars
    /\ [](exitPath = "quit" => (exitCode = 0 /\ stopCount = 1))

\* the session was quit at a position other than the first
C4_QuitAtLaterPosition ==
    /\ exitPath = "quit"
    /\ exitCode = 0
    /\ current_index > 0
    /\ current_index < Total

\* C5: on every exit of a session that entered the command loop (signal,
\* quit, exhaustion) the service has been stopped exactly once.
C5_StopExactlyOnce ==
    (InSession /\ pc = "exited" /\ exitPath \in {"signal", "quit", "exhausted"})
        => stopCount = 1

\* C6: a jump answered with anything but an integer in 1..N changes neither
\* the position nor the awaited test, runs nothing, and reports the input
\* invalid; the session keeps awaiting a command.
C6_InvalidJumpChangesNothing ==
    [][(/\ pc = "await"
        /\ report' \in {"jumped", "invalid_number", "invalid_input"}
        /\ \E jin \in JumpInputs :
            /\ ~(JumpIndex[jin].ok /\ JumpIndex[jin].val \in 1..Total)
            /\ TddJumpTo(jin))
            => /\ current_index' = current_index
               /\ current_test' = current_test
               /\ executed' = executed
               /\ stopCount' = stopCount
               /\ report' \in {"invalid_number", "invalid_input"}
               /\ pc' = "await"]_vars

\* an out-of-range jump was refused away from the first position
C6_InvalidJumpRefused ==
    /\ pc = "await"
    /\ report = "invalid_number"
    /\ current_index > 0

\* C7: the session starts at the first test containing the filter,
\* case-insensitively, and at 0 when the filter is empty or matches nothing.
C7_InitialPosition ==
    (tdd /\ pc = "await" /\ report = "prompt")
        => current_index = FirstMatch(all_tests, test_filter)

\* a filter that differs in case from the test it selects, past the first test
C7_StartedAtMatch ==
    /\ tdd
    /\ pc = "await"
    /\ report = "prompt"
    /\ current_index = 1
    /\ ~Contains(test_filter, all_tests[2])

\* C8: start_wata_server() finding the service healthy returns True at once:
\* no launch, no poll, no stop.
C8_StartWhenHealthy ==
    [][(pc = "start_entry" /\ ScriptStep /\ lastProbe')
        => /\ startRet' = "true"
           /\ spawnCount' = spawnCount
           /\ stopCount' = stopCount
           /\ poll_i' = 0
           /\ pc' \notin {"start_entry", "start_poll"}]_vars

\* every restart found the service healthy and nothing was ever launched
C8_RestartedWithoutLaunch ==
    /\ pc = "interactive"
    /\ restarts > 0
    /\ startRet = "true"
    /\ spawnCount = 0

\* C9: start_wata_server() returns False only after one launch and exactly
\* PollBudget failed polls, without stopping anything; a successful poll
\* returns True at once.
C9_StartPollBudget ==
    /\ [][(startRet = "pending" /\ startRet' = "false")
            => (poll_i = PollBudget /\ launched = 1 /\ spawnCount' = spawnCount
                /\ stopCount' = stopCount)]_vars
    /\ [][(pc = "start_poll" /\ ScriptStep)
            => /\ stopCount' = stopCount
               /\ spawnCount' = spawnCount
               /\ IF lastProbe' THEN startRet' = "true" /\ pc' # "start_poll"
                  ELSE IF poll_i < PollBudget
                  THEN poll_i' = poll_i + 1 /\ pc' = "start_poll"
                  ELSE startRet' = "false"]_vars
    /\ [](poll_i <= PollBudget)

\* a start that failed: one launch, nothing stopped
C9_StartFailed ==
    /\ exitPath = "start_failed"
    /\ startRet = "false"
    /\ spawnCount = 1
    /\ stopCount = 0

\* C10: 0 <= position <= total; a command is awaited only at position < total,
\* and position = total only once the loop has ended.
C10_PositionInRange ==
    /\ 0 <= current_index
    /\ current_index <= Total
    /\ (pc = "await" => current_index < Total)
    /\ ((InSession /\ current_index = Total) => (Exhausted \/ pc = "exited"))

\* the last position was reached by commands that include a jump
C10_ExhaustedAfterJump ==
    /\ InSession
    /\ pc = "all_passed"
    /\ current_index = Total
    /\ report = "skipping"
    /\ ~plain
    /\ executed = <<>>

\* the session has been given exactly the commands of Scenario, on a queue
\* of two different tests taken from its first one
ScenarioDone ==
    /\ InSession
    /\ test_filter = <<>>
    /\ Total = 2
    /\ all_tests[1] # all_tests[2]
    /\ scenario = Len(Scenario)

\* C11: on the queue [a, b] without a filter the commands run (a fails), run
\* (a passes), skip end the session by exhaustion with a executed exactly
\* twice, b never executed, the service stopped and exit code 0.
C11_FailPassSkip ==
    ScenarioDone
        => /\ current_index = Total
           /\ executed = <<all_tests[1], all_tests[1]>>
           /\ (Exhausted \/ exitPath = "signal")
           /\ (pc \in {"tdd_return", "exited"} => stopCount >= 1)
           /\ (pc = "exited" => exitCode = 0)

\* the three commands were given and the script returned from tdd_mode
C11_ScenarioExited ==
    /\ ScenarioDone
    /\ exitPath = "exhausted"
    /\ stopCount = 1
    /\ exitCode = 0

\* C12: when get_all_tests() returns no test, the TDD session exits with code
\* 1 before any command is accepted and before any test is executed; the
\* command loop is never entered.
C12_NoTestsAborts ==
    /\ []((tdd /\ all_tests = <<>>)
            => /\ pc \notin {"await", "quit_exit", "all_passed", "tdd_return"}
               /\ executed = <<>>
               /\ scenario = 0)
    /\ [](exitPath = "no_tests" => (tdd /\ all_tests = <<>> /\ exitCode = 1))
    /\ [][(pc = "get_tests" /\ all_tests' = <<>> /\ ScriptStep)
            => (pc' = "exited" /\ exitPath' = "no_tests" /\ exitCode' = 1)]_vars

\* the service was up or came up, and the runner listed no test
C12_NoTestsFound ==
    /\ exitPath = "no_tests"
    /\ report = "no_tests"
    /\ exitCode = 1
    /\ stopCount = 0

\* C13 as stated: in every mode the exit code is 0 or 1, no other exit code
\* is produced.
C13_ExitZeroOrOne == pc = "exited" => exitCode \in {0, 1}

\* C13, amended: the exit code is 1 when the service fails to start, when no
\* test is found, when the single test fails and when an uncaught error ends
\* the script; it is 0 when a TDD session ends by exhaustion or by quit, when
\* the interactive menu is left, when the single test passes and on an
\* interrupt; in batch mode it is the exit status of the runner, whatever
\* that is.
C13_ExitCodeByPath ==
    pc = "exited"
        => /\ exitPath \in {"start_failed", "no_tests", "exception", "quit", "exhausted",
                            "signal", "interactive", "single", "batch"}
           /\ (exitPath \in {"start_failed", "no_tests", "exception"} => exitCode = 1)
           /\ (exitPath \in {"quit", "exhausted", "signal", "interactive"} => exitCode = 0)
           /\ (exitPath = "single"
                  => /\ exitCode \in {0, 1}
                     /\ (exitCode = 0 <=> report = "passed"))
           /\ (exitPath = "batch" => (exitCode = rc /\ rc \in RunnerCodes))

\* the batch run forwarded a runner status that is neither 0 nor 1
C13_BatchForwardsOther ==
    /\ exitPath = "batch"
    /\ exitCode = 2
    /\ stopCount = 1

\* C14: whatever is typed at the command prompt and at the jump prompt, end of
\* input included, the session either keeps awaiting a command or ends with
\* the service stopped; it never ends abnormally with the service running.
C14_TotalOverInput ==
    (InSession /\ pc = "exited")
        => /\ exitPath \in {"quit", "exhausted", "signal"}
           /\ stopCount >= 1

\* C15: every run command executes queue[position] for the position at the
\* moment the command is issued, whatever commands (jumps included) came
\* before; so the position advances from p to p+1 only by a passing
\* execution of queue[p] or by a skip.
C15_RunExecutesCurrent ==
    /\ [][(pc = "await" /\ RunStep)
            => LastExecuted = all_tests[current_index + 1]]_vars
    /\ [][(pc = "await" /\ ScriptStep /\ report' # "jumped"
              /\ current_index' = current_index + 1)
            => \/ report' = "skipping" /\ ~RunStep
               \/ /\ report' = "passed"
                  /\ RunStep
                  /\ LastExecuted = all_tests[current_index + 1]]_vars

\* C16: a session that ends by exhaustion reports "All tests passed!" and has
\* stopped the service exactly once; that report is issued only if every test
\* of the queue had a passing execution during the session.
C16_AllPassedMeansAllPassed ==
    /\ (exitPath = "exhausted" => (report = "all_passed" /\ stopCount = 1))
    /\ (report = "all_passed" => \A i \in 1..Total : all_tests[i] \in passedTests)

\* C17: a skip at a position < N adds exactly 1 to the position, executes no
\* test, whether or not the awaited test has failed before, and does not stop
\* the service; the session goes on awaiting the next test unless the queue
\* is exhausted by the skip.
C17_SkipAdvancesByOne ==
    [][(pc = "await" /\ report' = "skipping")
        => /\ current_index < Total
           /\ current_index' = current_index + 1
           /\ all_tests' = all_tests
           /\ executed' = executed
           /\ passedTests' = passedTests
           /\ stopCount' = stopCount
           /\ spawnCount' = spawnCount
           /\ pc' = IF current_index' < Total THEN "await" ELSE "all_passed"
           /\ (pc' = "await" => current_test' = all_tests[current_index' + 1])]_vars

\* the first test was run once, failed, and was then skipped
C17_SkippedAfterFailure ==
    /\ pc = "await"
    /\ report = "skipping"
    /\ current_index = 1
    /\ executed = <<all_tests[1]>>
    /\ passedTests = {}
    /\ stopCount = 0

\* C18: a logs command and any unknown command change neither the position
\* nor the queue nor the service: no test is executed, nothing is stopped or
\* started, and the session keeps awaiting a command for the same test.
C18_LogsUnknownChangeNothing ==
    [][(pc = "await" /\ report' \in {"logs", "unknown"})
        => /\ pc' = "await"
           /\ current_index' = current_index
           /\ current_test' = current_test
           /\ all_tests' = all_tests
           /\ executed' = executed
           /\ passedTests' = passedTests
           /\ stopCount' = stopCount
           /\ spawnCount' = spawnCount
           /\ launched' = launched]_vars

\* an unknown command was answered away from the first position, after a run
C18_UnknownAfterRun ==
    /\ pc = "await"
    /\ report = "unknown"
    /\ current_index > 0
    /\ executed # <<>>
    /\ stopCount = 0

\* C19: outside TDD mode, with the service up: with a filter the script runs
\* that one test once, stops the service once and exits 0 iff the test
\* passed; without a filter and without a terminal it runs the whole suite
\* once, stops the service once and exits with the runner's status; neither
\* iterates over tests nor retries.
C19_SingleAndBatch ==
    /\ ((pc = "single_exit" \/ exitPath = "single")
          => /\ ~tdd
             /\ executed = <<test_filter>>
             /\ suiteRuns = 0
             /\ restarts = 0
             /\ stopCount = 1
             /\ rc = (IF test_filter \in passedTests THEN 0 ELSE 1))
    /\ ((pc = "batch_exit" \/ exitPath = "batch")
          => /\ ~tdd
             /\ test_filter = <<>>
             /\ executed = <<>>
             /\ suiteRuns = 1
             /\ restarts = 0
             /\ stopCount = 1
             /\ rc \in RunnerCodes)
    /\ (exitPath \in {"single", "batch"} => exitCode = rc)

\* the script started the service, ran the one test, which failed
C19_SingleFailed ==
    /\ exitPath = "single"
    /\ exitCode = 1
    /\ spawnCount = 1
    /\ stopCount = 1
    /\ Len(executed) = 1

\* C20: when the service is down and start_wata_server() fails, in TDD mode
\* and in the other modes alike, the script exits with code 1 before listing
\* the tests: no test is executed, no command is read, and
\* stop_wata_server() is not called, so the launched process stays alive.
C20_StartFailureExits ==
    /\ [][(caller \in {"tdd", "main"} /\ startRet = "pending" /\ startRet' = "false")
            => /\ pc' = "exited"
               /\ exitPath' = "start_failed"
               /\ exitCode' = 1
               /\ stopCount' = stopCount]_vars
    /\ [](exitPath = "start_failed"
            => /\ exitCode = 1
               /\ all_tests = <<>>
               /\ executed = <<>>
               /\ suiteRuns = 0
               /\ scenario = 0
               /\ restarts = 0
               /\ stopCount = 0
               /\ spawnCount = 1)

\* a TDD invocation whose service never became healthy
C20_TddStartFailed ==
    /\ tdd
    /\ exitPath = "start_failed"
    /\ report = "start_failed"
    /\ exitCode = 1
    /\ all_tests = <<>>
    /\ spawnCount = 1
    /\ stopCount = 0

====
